---- MODULE Spec2Model ----
(***************************************************************************)
(* The leader/follower coordination of `rover dev`:                        *)
(*   src/src/command/dev/protocol/leader.rs  (LeaderSession, replies,      *)
(*                                            LeaderChannel)               *)
(*   src/src/command/dev/watcher.rs          (SubgraphSchemaWatcher)       *)
(*                                                                         *)
(* Spec          the leader's dispatch of follower messages over its       *)
(*               registry, the composition driver and the router           *)
(* ChannelSpec   the two rendezvous channels between the requesters (the   *)
(*               socket-serving worker, the in-process messengers) and the *)
(*               leader loop; FairChannelSpec adds the scheduling fairness *)
(* ElectionSpec  concurrent LeaderSession::new + listen on one rendezvous  *)
(***************************************************************************)
EXTENDS Integers, Sequences, FiniteSets, TLC

\* ------------------------------------------------------------------ bounds
\* The subgraph names and routing URLs of the model, and the number of
\* distinct SDL documents (an SDL is opaque to the leader: 1..NumSdls).
SubgraphNames == {"users", "posts"}
Urls == {"http://u/", "http://p/"}
NumSdls == 2
Sdls == 1..NumSdls

\* SubgraphKey = (name, url); SubgraphEntry = (SubgraphKey, SubgraphSdl)
SubgraphKeys == SubgraphNames \X Urls

\* PKG_VERSION of the leader binary, and the versions a follower may report
PKG_VERSION == "pkg"
FollowerVersions == {"pkg", "other"}

VARIABLES
    subgraphs,        \* LeaderSession.subgraphs: HashMap<SubgraphKey, SubgraphSdl>
    router_state,     \* RouterRunner: "Installed" (no child) or "Running"
    schema_written,   \* ComposeRunner: a composed schema has been produced before
    running,          \* FALSE once std::process::exit has been called
    ever_added,       \* history: some add has inserted an entry already
    last,             \* history: the last exchange handled (see Exchange)
    composition,      \* history: how the last call of compose() ended
    exit,             \* history: what shutdown() attempted, and the exit status
    \* the channels between the requesters and the leader loop
    follower_chan,    \* FollowerChannel: the requesters blocked in send
    leader_chan,      \* LeaderChannel: the replies sent and not yet received
    main_pc,          \* the leader loop: "recv", "handle", "send", "sending"
    cur,              \* the requester whose FollowerMessage the loop is handling
    rq,               \* per requester: its position, its message, the reply it got
    conn,             \* history: what the worker read from and wrote to the
                      \* connection it is serving
    session,          \* per starting process: its position in the start-up
    backing,          \* how the platform backs the local socket name
    socket_file,      \* whether the file raw_socket_name exists
    bound,            \* the process whose listener the socket name reaches, or 0
    done,             \* history, per starting process: the steps it has taken
    \* one SubgraphSchemaWatcher
    schema_watcher_kind,       \* "Introspect", "File" or "Once"
    subgraph_retries,          \* the retry budget
    subgraph_retry_countdown,  \* the retries left
    last_message,              \* last_message of watch_subgraph_for_changes
    watcher_pc,       \* "start", "loop", or the result returned: "Ok", "Err"
    emit,             \* history: what the last step of the watcher fetched and sent
    last_sent,        \* history: the last message the watcher has sent
    was_removed,      \* history: a RemoveSubgraph has been delivered
    failures,         \* history: failed fetches since the last success or removal
    pushed,           \* history: the last SDL delivered to the leader, 0 if none
    \* one call of get_federation_version
    env_var,            \* Option<String>: the environment override
    sc_config_version,  \* Option<FederationVersion> of the supergraph config
    federation_version, \* the RoverResult returned, Unresolved before the call
    \* one call of supergraph_config
    supergraph,         \* the SupergraphConfig built last, NoneValue before the call
    \* the messages of the watchers on their way to the leader
    sent,               \* history: per watcher, the messages it sends, in order
    queues              \* per watcher, the messages the leader has not handled yet

coreVars ==
    <<subgraphs, router_state, schema_written, running, ever_added, last, composition,
      exit>>
chanVars == <<follower_chan, leader_chan, main_pc, cur, rq, conn>>
electVars == <<session, backing, socket_file, bound, done>>
watchVars ==
    <<schema_watcher_kind, subgraph_retries, subgraph_retry_countdown, last_message,
      watcher_pc, emit, last_sent, was_removed, failures, pushed>>
versionVars == <<env_var, sc_config_version, federation_version>>
configVars == <<supergraph>>
interleaveVars == <<sent, queues>>

\* ---------------------------------------------------------------- messages
\* FollowerMessageKind
AddSubgraph(name, url, sdl) ==
    [kind |-> "AddSubgraph", name |-> name, url |-> url, sdl |-> sdl]
UpdateSubgraph(name, url, sdl) ==
    [kind |-> "UpdateSubgraph", name |-> name, url |-> url, sdl |-> sdl]
RemoveSubgraph(name) ==
    [kind |-> "RemoveSubgraph", name |-> name]
GetSubgraphs == [kind |-> "GetSubgraphs"]
Shutdown == [kind |-> "Shutdown"]
HealthCheck == [kind |-> "HealthCheck"]
GetVersion(v) == [kind |-> "GetVersion", follower_version |-> v]

FollowerMessageKinds ==
    {AddSubgraph(n, u, s) : n \in SubgraphNames, u \in Urls, s \in Sdls}
    \cup {UpdateSubgraph(n, u, s) : n \in SubgraphNames, u \in Urls, s \in Sdls}
    \cup {RemoveSubgraph(n) : n \in SubgraphNames}
    \cup {GetSubgraphs, Shutdown, HealthCheck}
    \cup {GetVersion(v) : v \in FollowerVersions}

\* LeaderMessageKind and its constructors
get_version(follower_version) ==
    [kind |-> "GetVersion", follower_version |-> follower_version,
     leader_version |-> PKG_VERSION]
current_subgraphs(keys) == [kind |-> "LeaderSessionInfo", subgraphs |-> keys]
error(e) == [kind |-> "ErrorNotification", error |-> e]
\* the reply of an add that names the action of an update
add_subgraph_composition_success_updating(name) ==
    [kind |-> "CompositionSuccess", action |-> <<"updating the '", name, "' subgraph">>]
add_subgraph_composition_success(name) ==
    [kind |-> "CompositionSuccess", action |-> <<"adding the '", name, "' subgraph">>]
update_subgraph_composition_success(name) ==
    [kind |-> "CompositionSuccess", action |-> <<"updating the '", name, "' subgraph">>]
remove_subgraph_composition_success(name) ==
    [kind |-> "CompositionSuccess", action |-> <<"removing the '", name, "' subgraph">>]
message_received == [kind |-> "MessageReceived"]

\* ------------------------------------------------- collaborators' outcomes
\* What one call of the handler may meet: the composer's result, the result
\* of the router spawn and of the router kill.
\* ComposeRunner::run: an error, "no new schema" (identical to the last one
\* produced, so there must be one), or a new schema.
ComposeRunner_run(has_schema) ==
    IF has_schema THEN {"Err", "NoNew", "New"} ELSE {"Err", "New"}
RouterRunner_spawn == {"ok", "err"}
RouterRunner_kill == {"ok", "err"}

Outcomes(has_schema) ==
    [run : ComposeRunner_run(has_schema), spawn : RouterRunner_spawn,
     kill : RouterRunner_kill]

\* what a handler that ran no composition reports
NoComposition == [run |-> "none", spawn |-> "none", kill |-> "none"]

\* -------------------------------------------------------------- registry
Insert(map, key, sdl) ==
    [k \in (DOMAIN map) \cup {key} |-> IF k = key THEN sdl ELSE map[k]]
Remove(map, key) ==
    [k \in (DOMAIN map) \ {key} |-> map[k]]
EmptyMap == [k \in {} |-> 0]

\* compose() that returns the error of the kill when the kill fails
compose_kill_error_wins(st, oc) ==
    IF oc.run = "Err"
    THEN [st |-> [st EXCEPT !.router = "Installed"],
          result |-> "Err",
          err |-> IF oc.kill = "err" THEN "router kill error" ELSE "composition error",
          comp |-> [run |-> "Err", spawn |-> "none", kill |-> oc.kill]]
    ELSE IF oc.run = "NoNew"
    THEN [st |-> st, result |-> "None", err |-> "",
          comp |-> [run |-> "NoNew", spawn |-> "none", kill |-> "none"]]
    ELSE IF oc.spawn = "err"
    THEN [st |-> [st EXCEPT !.router = "Installed", !.written = TRUE],
          result |-> "Err",
          err |-> IF oc.kill = "err" THEN "router kill error" ELSE "router spawn error",
          comp |-> [run |-> "New", spawn |-> "err", kill |-> oc.kill]]
    ELSE [st |-> [st EXCEPT !.router = "Running", !.written = TRUE],
          result |-> "Some", err |-> "",
          comp |-> [run |-> "New", spawn |-> "ok", kill |-> "none"]]

\* compose() that leaves the router alone when the composer fails
compose_no_kill(st, oc) ==
    IF oc.run = "Err"
    THEN [st |-> st,
          result |-> "Err", err |-> "composition error",
          comp |-> [run |-> "Err", spawn |-> "none", kill |-> "none"]]
    ELSE IF oc.run = "NoNew"
    THEN [st |-> st, result |-> "None", err |-> "",
          comp |-> [run |-> "NoNew", spawn |-> "none", kill |-> "none"]]
    ELSE IF oc.spawn = "err"
    THEN [st |-> [st EXCEPT !.router = "Installed", !.written = TRUE],
          result |-> "Err", err |-> "router spawn error",
          comp |-> [run |-> "New", spawn |-> "err", kill |-> oc.kill]]
    ELSE [st |-> [st EXCEPT !.router = "Running", !.written = TRUE],
          result |-> "Some", err |-> "",
          comp |-> [run |-> "New", spawn |-> "ok", kill |-> "none"]]

\* compose() that kills the router whenever there is no new schema
compose_kill_on_none(st, oc) ==
    IF oc.run = "Err"
    THEN [st |-> [st EXCEPT !.router = "Installed"],
          result |-> "Err", err |-> "composition error",
          comp |-> [run |-> "Err", spawn |-> "none", kill |-> oc.kill]]
    ELSE IF oc.run = "NoNew"
    THEN [st |-> [st EXCEPT !.router = "Installed"], result |-> "None", err |-> "",
          comp |-> [run |-> "NoNew", spawn |-> "none", kill |-> oc.kill]]
    ELSE IF oc.spawn = "err"
    THEN [st |-> [st EXCEPT !.router = "Installed", !.written = TRUE],
          result |-> "Err", err |-> "router spawn error",
          comp |-> [run |-> "New", spawn |-> "err", kill |-> oc.kill]]
    ELSE [st |-> [st EXCEPT !.router = "Running", !.written = TRUE],
          result |-> "Some", err |-> "",
          comp |-> [run |-> "New", spawn |-> "ok", kill |-> "none"]]

\* LeaderSession::compose. st is the leader's state [subgraphs, router,
\* written]; oc the outcomes met. Result: the state after, the
\* CompositionResult ("Err" with its error, "None", "Some") and the calls made.
compose(st, oc) ==
    IF oc.run = "Err"
    THEN [st |-> [st EXCEPT !.router = "Installed"],
          result |-> "Err", err |-> "composition error",
          comp |-> [run |-> "Err", spawn |-> "none", kill |-> oc.kill]]
    ELSE IF oc.run = "NoNew"
    THEN [st |-> st, result |-> "None", err |-> "",
          comp |-> [run |-> "NoNew", spawn |-> "none", kill |-> "none"]]
    ELSE IF oc.spawn = "err"
    THEN [st |-> [st EXCEPT !.router = "Installed", !.written = TRUE],
          result |-> "Err", err |-> "router spawn error",
          comp |-> [run |-> "New", spawn |-> "err", kill |-> oc.kill]]
    ELSE [st |-> [st EXCEPT !.router = "Running", !.written = TRUE],
          result |-> "Some", err |-> "",
          comp |-> [run |-> "New", spawn |-> "ok", kill |-> "none"]]

\* add_subgraph without the is_first_subgraph test
add_subgraph_no_first_test(st, name, url, sdl, oc) ==
    IF <<name, url>> \notin DOMAIN st.subgraphs
    THEN LET inserted == [st EXCEPT !.subgraphs = Insert(@, <<name, url>>, sdl)]
             c == compose(inserted, oc)
         IN  [st |-> c.st, comp |-> c.comp,
              reply |-> IF c.result = "Err" THEN error(c.err)
                        ELSE IF c.result = "Some"
                        THEN add_subgraph_composition_success(name)
                        ELSE message_received]
    ELSE [st |-> st, comp |-> NoComposition,
          reply |-> error(<<"already exists", name, url>>)]

\* add_subgraph inserting with HashMap::insert: an occupied key is overwritten
add_subgraph_overwrite(st, name, url, sdl, oc) ==
    LET is_first_subgraph == DOMAIN st.subgraphs = {}
        present == <<name, url>> \in DOMAIN st.subgraphs
        inserted == [st EXCEPT !.subgraphs = Insert(@, <<name, url>>, sdl)]
    IN  IF ~present
        THEN LET c == compose(inserted, oc)
             IN  [st |-> c.st, comp |-> c.comp,
                  reply |-> IF c.result = "Err" THEN error(c.err)
                            ELSE IF c.result = "Some" /\ ~is_first_subgraph
                            THEN add_subgraph_composition_success(name)
                            ELSE message_received]
        ELSE [st |-> inserted, comp |-> NoComposition,
              reply |-> error(<<"already exists", name, url>>)]

\* LeaderSession::add_subgraph
add_subgraph(st, name, url, sdl, oc) ==
    LET is_first_subgraph == DOMAIN st.subgraphs = {}
    IN  IF <<name, url>> \notin DOMAIN st.subgraphs
        THEN LET inserted == [st EXCEPT !.subgraphs = Insert(@, <<name, url>>, sdl)]
                 c == compose(inserted, oc)
             IN  [st |-> c.st, comp |-> c.comp,
                  reply |-> IF c.result = "Err" THEN error(c.err)
                            ELSE IF c.result = "Some" /\ ~is_first_subgraph
                            THEN add_subgraph_composition_success(name)
                            ELSE message_received]
        ELSE [st |-> st, comp |-> NoComposition,
              reply |-> error(<<"already exists", name, url>>)]

\* update_subgraph without the `prev_sdl != sdl` test
update_subgraph_always_replace(st, name, url, sdl, oc) ==
    IF <<name, url>> \in DOMAIN st.subgraphs
    THEN LET replaced == [st EXCEPT !.subgraphs = Insert(@, <<name, url>>, sdl)]
             c == compose(replaced, oc)
         IN  [st |-> c.st, comp |-> c.comp,
              reply |-> IF c.result = "Err" THEN error(c.err)
                        ELSE IF c.result = "Some"
                        THEN update_subgraph_composition_success(name)
                        ELSE message_received]
    ELSE add_subgraph(st, name, url, sdl, oc)

\* update_subgraph putting the previous SDL back when the composition fails
update_subgraph_rolls_back(st, name, url, sdl, oc) ==
    IF <<name, url>> \in DOMAIN st.subgraphs
    THEN IF st.subgraphs[<<name, url>>] # sdl
         THEN LET replaced == [st EXCEPT !.subgraphs = Insert(@, <<name, url>>, sdl)]
                  c == compose(replaced, oc)
              IN  [st |-> IF c.result = "Err"
                          THEN [c.st EXCEPT !.subgraphs = st.subgraphs]
                          ELSE c.st,
                   comp |-> c.comp,
                   reply |-> IF c.result = "Err" THEN error(c.err)
                             ELSE IF c.result = "Some"
                             THEN update_subgraph_composition_success(name)
                             ELSE message_received]
         ELSE [st |-> st, comp |-> NoComposition, reply |-> message_received]
    ELSE add_subgraph(st, name, url, sdl, oc)

\* LeaderSession::update_subgraph
update_subgraph(st, name, url, sdl, oc) ==
    IF <<name, url>> \in DOMAIN st.subgraphs
    THEN IF st.subgraphs[<<name, url>>] # sdl
         THEN LET replaced == [st EXCEPT !.subgraphs = Insert(@, <<name, url>>, sdl)]
                  c == compose(replaced, oc)
              IN  [st |-> c.st, comp |-> c.comp,
                   reply |-> IF c.result = "Err" THEN error(c.err)
                             ELSE IF c.result = "Some"
                             THEN update_subgraph_composition_success(name)
                             ELSE message_received]
         ELSE [st |-> st, comp |-> NoComposition, reply |-> message_received]
    ELSE add_subgraph(st, name, url, sdl, oc)

\* The keys `self.subgraphs.keys().find(|(name, _)| name == subgraph_name)`
\* may return: a HashMap iterates in an unspecified order, so any key with
\* the name can be the first one found.
\* a search that takes any key, whatever its name
FindByName_any(map, subgraph_name) == DOMAIN map

FindByName(map, subgraph_name) ==
    {k \in DOMAIN map : k[1] = subgraph_name}

\* remove_subgraph removing every key with the name (a retain by name)
remove_subgraph_all_named(st, subgraph_name, found, oc) ==
    IF FindByName(st.subgraphs, subgraph_name) # {}
    THEN LET removed ==
                 [st EXCEPT !.subgraphs =
                     [k \in (DOMAIN @) \ FindByName(@, subgraph_name) |-> @[k]]]
             c == compose(removed, oc)
         IN  [st |-> c.st, comp |-> c.comp,
              reply |-> IF c.result = "Err" THEN error(c.err)
                        ELSE IF c.result = "Some"
                        THEN remove_subgraph_composition_success(found[1])
                        ELSE message_received]
    ELSE [st |-> st, comp |-> NoComposition, reply |-> message_received]

\* remove_subgraph acknowledging a new schema with MessageReceived
remove_subgraph_no_success(st, subgraph_name, found, oc) ==
    IF FindByName(st.subgraphs, subgraph_name) # {}
    THEN LET removed == [st EXCEPT !.subgraphs = Remove(@, found)]
             c == compose(removed, oc)
         IN  [st |-> c.st, comp |-> c.comp,
              reply |-> IF c.result = "Err" THEN error(c.err) ELSE message_received]
    ELSE [st |-> st, comp |-> NoComposition, reply |-> message_received]

\* LeaderSession::remove_subgraph; found is the key the search returned
\* (an element of FindByName) and is unused when no key has the name.
remove_subgraph(st, subgraph_name, found, oc) ==
    IF FindByName(st.subgraphs, subgraph_name) # {}
    THEN LET removed == [st EXCEPT !.subgraphs = Remove(@, found)]
             c == compose(removed, oc)
         IN  [st |-> c.st, comp |-> c.comp,
              reply |-> IF c.result = "Err" THEN error(c.err)
                        ELSE IF c.result = "Some"
                        THEN remove_subgraph_composition_success(found[1])
                        ELSE message_received]
    ELSE [st |-> st, comp |-> NoComposition, reply |-> message_received]

\* LeaderSession::get_subgraphs
\* a get_subgraphs that leaves one of the keys out
get_subgraphs_one_short(st) ==
    LET keys == DOMAIN st.subgraphs
    IN  IF keys = {} THEN keys ELSE keys \ {CHOOSE k \in keys : TRUE}

get_subgraphs(st) == DOMAIN st.subgraphs

\* LeaderSession::handle_follower_message_kind for every kind but Shutdown
\* (which never returns, see HandleShutdown).
handle_follower_message_kind(st, m, found, oc) ==
    CASE m.kind = "AddSubgraph" -> add_subgraph(st, m.name, m.url, m.sdl, oc)
      [] m.kind = "UpdateSubgraph" -> update_subgraph(st, m.name, m.url, m.sdl, oc)
      [] m.kind = "RemoveSubgraph" -> remove_subgraph(st, m.name, found, oc)
      [] m.kind = "GetSubgraphs" ->
            [st |-> st, comp |-> NoComposition,
             reply |-> current_subgraphs(get_subgraphs(st))]
      [] m.kind = "HealthCheck" ->
            [st |-> st, comp |-> NoComposition, reply |-> message_received]
      [] m.kind = "GetVersion" ->
            [st |-> st, comp |-> NoComposition,
             reply |-> get_version(m.follower_version)]

\* ------------------------------------------------------------- leader loop
LeaderState ==
    [subgraphs |-> subgraphs, router |-> router_state, written |-> schema_written]

\* What handle_follower_message_kind may return for m in the state st: one
\* result per outcome the collaborators may produce and per key the search
\* of remove_subgraph may find first.
Results(st, m) ==
    LET founds == IF m.kind = "RemoveSubgraph" /\ FindByName(st.subgraphs, m.name) # {}
                  THEN FindByName(st.subgraphs, m.name)
                  ELSE {<<"", "">>}
    IN  {handle_follower_message_kind(st, m, found, oc) :
            found \in founds, oc \in Outcomes(st.written)}

\* The record of one handled exchange: the message, the registry and the
\* router before it, the reply, the collaborators' calls (comp), and whether
\* it was the first add that inserted an entry.
Inserts(m, before) ==
    m.kind \in {"AddSubgraph", "UpdateSubgraph"} /\ <<m.name, m.url>> \notin DOMAIN before
Exchange(m, r) ==
    [msg |-> m, before |-> subgraphs, router_before |-> router_state,
     reply |-> r.reply, comp |-> r.comp,
     first |-> Inserts(m, subgraphs) /\ ~ever_added]
NoExchange ==
    [msg |-> [kind |-> "none"], before |-> EmptyMap, router_before |-> "Installed",
     reply |-> [kind |-> "none"], comp |-> NoComposition, first |-> FALSE]

\* The CompositionResult of the last call of compose(): "Ok" for Ok(None)
\* and Ok(Some(_)), "Err" for a composer error and for a router spawn error;
\* a handler that does not call compose() leaves it as it was.
Composed(comp) ==
    IF comp.run = "none" THEN composition
    ELSE IF comp.run = "Err" \/ comp.spawn = "err" THEN "Err"
    ELSE "Ok"

\* One turn of the loop of receive_all_subgraph_updates for a message that
\* is answered: handle_follower_message_kind on the leader's state. The
\* reply sent back is last'.reply.
Handle(m) ==
    /\ running
    /\ m.kind # "Shutdown"
    /\ \E r \in Results(LeaderState, m) :
          /\ subgraphs' = r.st.subgraphs
          /\ router_state' = r.st.router
          /\ schema_written' = r.st.written
          /\ last' = Exchange(m, r)
          /\ composition' = Composed(r.comp)
    /\ ever_added' = (ever_added \/ Inserts(m, subgraphs))
    /\ UNCHANGED <<running, exit>>

\* The outcomes of std::fs::remove_file(&self.raw_socket_name)
remove_file_results == {"ok", "err"}

NoExit == [kill |-> "none", remove_file |-> "none", status |-> 0]

\* shutdown() that returns after a failed kill of the router
Exit_kill_propagates(kill, remove) ==
    [kill |-> kill,
     remove_file |-> IF kill = "err" THEN "none" ELSE remove,
     status |-> 1]

\* LeaderSession::shutdown: the router is killed and the socket file removed,
\* the result of either dropped, then std::process::exit(1)
Exit(kill, remove) ==
    [kill |-> kill, remove_file |-> remove, status |-> 1]

\* shutdown() reached from the Shutdown message: no reply is ever returned
HandleShutdown(m) ==
    /\ running
    /\ m.kind = "Shutdown"
    /\ router_state' = "Installed"
    /\ running' = FALSE
    /\ \E k \in RouterRunner_kill : \E r \in remove_file_results :
          /\ exit' = Exit(k, r)
          /\ last' = [msg |-> m, before |-> subgraphs, router_before |-> router_state,
                      reply |-> [kind |-> "none"],
                      comp |-> [run |-> "none", spawn |-> "none", kill |-> k],
                      first |-> FALSE]
    /\ UNCHANGED <<subgraphs, schema_written, ever_added, composition>>

\* Drop for LeaderSession: the session is destroyed, drop() calls shutdown()
Drop ==
    /\ running
    /\ router_state' = "Installed"
    /\ running' = FALSE
    /\ \E k \in RouterRunner_kill : \E r \in remove_file_results :
          /\ exit' = Exit(k, r)
          /\ last' = [msg |-> [kind |-> "none"], before |-> subgraphs,
                      router_before |-> router_state,
                      reply |-> [kind |-> "none"],
                      comp |-> [run |-> "none", spawn |-> "none", kill |-> k],
                      first |-> FALSE]
    /\ UNCHANGED <<subgraphs, schema_written, ever_added, composition>>

CoreInit ==
    /\ subgraphs = EmptyMap
    /\ router_state = "Installed"
    /\ schema_written = FALSE
    /\ running = TRUE
    /\ ever_added = FALSE
    /\ last = NoExchange
    /\ composition = "none"
    /\ exit = NoExit

\* --------------------------------------------------------------- channels
\* crossbeam_channel::bounded(cap): a send returns once no more than cap
\* messages of the channel wait to be received (cap = 0: once it was taken).
bounded(cap) == [cap |-> cap]
\* LeaderChannel::new with a one-slot buffer
LeaderChannel_new_buffered == bounded(1)
\* LeaderChannel::new
LeaderChannel_new == bounded(0)
\* FollowerChannel::new
FollowerChannel_new == bounded(0)

\* The requesters: 0 is the worker serving the rendezvous socket, 1.. are
\* the in-process messengers of the leader's own watchers.
NumMessengers == 1
Worker == 0
Messengers == 1..NumMessengers
Requesters == {Worker} \cup Messengers

\* The messages the requesters send in ChannelSpec
ChannelMessages ==
    {AddSubgraph("users", "http://u/", 1), UpdateSubgraph("users", "http://u/", 2),
     RemoveSubgraph("users"), GetSubgraphs, HealthCheck, Shutdown}

NoMessage == [kind |-> "none"]
\* a reply in the leader channel: the LeaderMessageKind and, as history, the
\* requester whose message it answers
NoReply == [reply |-> [kind |-> "none"], from |-> -1]
NoConn == [read |-> "none", written |-> 0]

\* how socket_read fails: a bad frame, a payload that is no FollowerMessage,
\* the end of the stream
ReadErrors == {"Framing", "Decode", "Eof"}

ChanInit ==
    /\ follower_chan = {}
    /\ leader_chan = <<>>
    /\ main_pc = "recv"
    /\ cur = -1
    /\ rq = [r \in Requesters |-> [pc |-> "idle", msg |-> NoMessage, got |-> NoReply]]
    /\ conn = NoConn

\* follower_message_sender.send(message): the requester blocks in the send
StartSend(r, m) ==
    /\ rq' = [rq EXCEPT ![r] = [pc |-> "sending", msg |-> m, got |-> NoReply]]
    /\ follower_chan' = follower_chan \cup {r}

\* The socket worker takes the next connection and reads a valid
\* FollowerMessage from it: it sends it on the follower channel.
WorkerReadValid(m) ==
    /\ running
    /\ rq[Worker].pc = "idle"
    /\ conn' = [read |-> "valid", written |-> 0]
    /\ StartSend(Worker, m)
    /\ UNCHANGED <<leader_chan, main_pc, cur>>
    /\ UNCHANGED <<coreVars, electVars, watchVars, versionVars, configVars, interleaveVars>>

\* The socket worker takes the next connection and socket_read fails: the
\* error is logged and the worker goes on to the next connection.
WorkerReadInvalid(e) ==
    /\ running
    /\ rq[Worker].pc = "idle"
    /\ conn' = [read |-> e, written |-> 0]
    /\ rq' = [rq EXCEPT ![Worker] = [pc |-> "idle", msg |-> NoMessage, got |-> NoReply]]
    /\ UNCHANGED <<follower_chan, leader_chan, main_pc, cur>>
    /\ UNCHANGED <<coreVars, electVars, watchVars, versionVars, configVars, interleaveVars>>

\* An in-process messenger sends a message of one of the leader's watchers
MessengerSend(r, m) ==
    /\ running
    /\ rq[r].pc = "idle"
    /\ StartSend(r, m)
    /\ UNCHANGED <<leader_chan, main_pc, cur, conn>>
    /\ UNCHANGED <<coreVars, electVars, watchVars, versionVars, configVars, interleaveVars>>

\* The send of r returns: with capacity 0, when the loop has taken the message
SendReturns(r) ==
    /\ running
    /\ rq[r].pc = "sending"
    /\ Cardinality(follower_chan \cap {r}) <= FollowerChannel_new.cap
    /\ rq' = [rq EXCEPT ![r].pc = "receiving"]
    /\ UNCHANGED <<follower_chan, leader_chan, main_pc, cur, conn>>
    /\ UNCHANGED <<coreVars, electVars, watchVars, versionVars, configVars, interleaveVars>>

\* leader_message_receiver.recv() by r: the oldest reply of the channel
Recv(r) ==
    /\ running
    /\ rq[r].pc = "receiving"
    /\ leader_chan # <<>>
    /\ leader_chan' = Tail(leader_chan)
    /\ rq' = [rq EXCEPT ![r] = [pc |-> IF r = Worker THEN "write" ELSE "idle",
                                 msg |-> NoMessage,
                                 got |-> Head(leader_chan)]]
    /\ UNCHANGED <<follower_chan, main_pc, cur, conn>>
    /\ UNCHANGED <<coreVars, electVars, watchVars, versionVars, configVars, interleaveVars>>

\* The socket worker goes on to the next connection without writing the reply
WorkerWrite_skipped ==
    /\ running
    /\ rq[Worker].pc = "write"
    /\ rq' = [rq EXCEPT ![Worker].pc = "idle"]
    /\ UNCHANGED <<follower_chan, leader_chan, main_pc, cur, conn>>
    /\ UNCHANGED <<coreVars, electVars, watchVars, versionVars, configVars, interleaveVars>>

\* Self::socket_write(leader_message, &mut stream) by the socket worker
WorkerWrite ==
    /\ running
    /\ rq[Worker].pc = "write"
    /\ conn' = [conn EXCEPT !.written = @ + 1]
    /\ rq' = [rq EXCEPT ![Worker].pc = "idle"]
    /\ UNCHANGED <<follower_chan, leader_chan, main_pc, cur>>
    /\ UNCHANGED <<coreVars, electVars, watchVars, versionVars, configVars, interleaveVars>>

\* self.follower_channel.receiver.recv() of the leader loop, taking the
\* message of the blocked sender r
MainRecvFrom(r) ==
    /\ running
    /\ main_pc = "recv"
    /\ r \in follower_chan
    /\ follower_chan' = follower_chan \ {r}
    /\ cur' = r
    /\ main_pc' = "handle"
    /\ UNCHANGED <<leader_chan, rq, conn>>
    /\ UNCHANGED <<coreVars, electVars, watchVars, versionVars, configVars, interleaveVars>>

\* a loop that exits when the handler replies with an error
MainHandle_exits_on_error ==
    /\ main_pc = "handle"
    /\ running
    /\ rq[cur].msg.kind # "Shutdown"
    /\ \E r \in Results(LeaderState, rq[cur].msg) :
          /\ subgraphs' = r.st.subgraphs
          /\ router_state' = r.st.router
          /\ schema_written' = r.st.written
          /\ last' = Exchange(rq[cur].msg, r)
          /\ composition' = Composed(r.comp)
          /\ running' = (r.reply.kind # "ErrorNotification")
    /\ ever_added' = (ever_added \/ Inserts(rq[cur].msg, subgraphs))
    /\ main_pc' = "send"
    /\ UNCHANGED <<exit, follower_chan, leader_chan, cur, rq, conn>>
    /\ UNCHANGED <<electVars, watchVars, versionVars, configVars, interleaveVars>>

\* self.handle_follower_message_kind(follower_message.kind())
MainHandle ==
    /\ main_pc = "handle"
    /\ Handle(rq[cur].msg)
    /\ main_pc' = "send"
    /\ UNCHANGED <<follower_chan, leader_chan, cur, rq, conn>>
    /\ UNCHANGED <<electVars, watchVars, versionVars, configVars, interleaveVars>>

\* the same for Shutdown: the process exits inside the handler
MainShutdown ==
    /\ main_pc = "handle"
    /\ HandleShutdown(rq[cur].msg)
    /\ UNCHANGED <<chanVars, electVars, watchVars, versionVars, configVars, interleaveVars>>

\* self.leader_channel.sender.send(leader_message): the loop blocks in it
MainSend ==
    /\ running
    /\ main_pc = "send"
    /\ leader_chan' = Append(leader_chan, [reply |-> last.reply, from |-> cur])
    /\ main_pc' = "sending"
    /\ UNCHANGED <<follower_chan, cur, rq, conn>>
    /\ UNCHANGED <<coreVars, electVars, watchVars, versionVars, configVars, interleaveVars>>

\* the send of the loop returns
MainSendReturns ==
    /\ running
    /\ main_pc = "sending"
    /\ Len(leader_chan) <= LeaderChannel_new.cap
    /\ main_pc' = "recv"
    /\ cur' = -1
    /\ UNCHANGED <<follower_chan, leader_chan, rq, conn>>
    /\ UNCHANGED <<coreVars, electVars, watchVars, versionVars, configVars, interleaveVars>>

OnWorkerReadInvalid == running /\ \E e \in ReadErrors : WorkerReadInvalid(e)
OnWorkerReadValid == running /\ \E m \in ChannelMessages : WorkerReadValid(m)
OnMessengerSend ==
    running /\ \E r \in Messengers : \E m \in ChannelMessages : MessengerSend(r, m)
OnSendReturns == running /\ \E r \in Requesters : SendReturns(r)
OnRecv == running /\ \E r \in Requesters : Recv(r)
OnMainRecv == running /\ \E r \in Requesters : MainRecvFrom(r)

ChannelNext ==
    \/ OnWorkerReadValid
    \/ OnWorkerReadInvalid
    \/ OnMessengerSend
    \/ OnSendReturns
    \/ OnRecv
    \/ WorkerWrite
    \/ OnMainRecv
    \/ MainHandle
    \/ MainShutdown
    \/ MainSend
    \/ MainSendReturns

\* --------------------------------------------------------------- election
\* The processes that start a leader session against the same socket name
NumProcs == 2
Procs == 1..NumProcs

\* create_socket_name(&raw_socket_name): the name is a path of the file system
\* or a name of the platform's namespace
Backings == {"file", "namespaced"}

\* the processes are at the first statement of LeaderSession::new; a socket
\* file may be there from last time
ElectInit ==
    /\ session = [p \in Procs |-> "connect"]
    /\ backing \in Backings
    /\ socket_file \in BOOLEAN
    /\ bound = 0
    /\ done = [p \in Procs |-> {}]

\* no process is starting
NoElection ==
    /\ session = [p \in Procs |-> "none"]
    /\ backing = "file"
    /\ socket_file = FALSE
    /\ bound = 0
    /\ done = [p \in Procs |-> {}]

\* std::fs::remove_file(&raw_socket_name): the file is unlinked, and with it
\* the path to the listener that was bound to it
remove_file ==
    /\ socket_file' = FALSE
    /\ bound' = IF backing = "file" THEN 0 ELSE bound

\* p has taken the steps of the set steps
Did(p, steps) == done' = [done EXCEPT ![p] = @ \cup steps]

\* an attach that removes the socket file as the start of a leader does
ConnectOk_removes(p) ==
    /\ session[p] = "connect"
    /\ bound # 0
    /\ Handle(HealthCheck)
    /\ remove_file
    /\ session' = [session EXCEPT ![p] = "None"]
    /\ Did(p, {"connect", "health_check", "remove_file"})
    /\ UNCHANGED backing
    /\ UNCHANGED <<chanVars, watchVars, versionVars, configVars, interleaveVars>>

\* Stream::connect(socket_name) succeeds: the process writes a HealthCheck,
\* which the leader behind the name handles, reads the reply and returns
\* Ok(None)
ConnectOk(p) ==
    /\ session[p] = "connect"
    /\ bound # 0
    /\ Handle(HealthCheck)
    /\ session' = [session EXCEPT ![p] = "None"]
    /\ Did(p, {"connect", "health_check"})
    /\ UNCHANGED <<backing, socket_file, bound>>
    /\ UNCHANGED <<chanVars, watchVars, versionVars, configVars, interleaveVars>>

\* Stream::connect(socket_name) fails: nobody listens on the name
ConnectErr(p) ==
    /\ session[p] = "connect"
    /\ bound = 0
    /\ session' = [session EXCEPT ![p] = "remove"]
    /\ Did(p, {"connect"})
    /\ UNCHANGED <<backing, socket_file, bound>>
    /\ UNCHANGED <<coreVars, chanVars, watchVars, versionVars, configVars, interleaveVars>>

\* let _ = std::fs::remove_file(&raw_socket_name)
RemoveFile(p) ==
    /\ session[p] = "remove"
    /\ remove_file
    /\ session' = [session EXCEPT ![p] = "bind"]
    /\ Did(p, {"remove_file"})
    /\ UNCHANGED backing
    /\ UNCHANGED <<coreVars, chanVars, watchVars, versionVars, configVars, interleaveVars>>

\* TcpListener::bind(router_socket_addr), dropped at once: Err when the
\* address is in use
BindRouterAddr(p, ok) ==
    /\ session[p] = "bind"
    /\ session' = [session EXCEPT ![p] = IF ok THEN "install" ELSE "Err"]
    /\ Did(p, {"bind"})
    /\ UNCHANGED <<backing, socket_file, bound>>
    /\ UNCHANGED <<coreVars, chanVars, watchVars, versionVars, configVars, interleaveVars>>

\* get_federation_version, maybe_install_router, maybe_install_supergraph,
\* router_config_handler.start: Ok(Some(Self)) unless one of them fails
Install(p, ok) ==
    /\ session[p] = "install"
    /\ session' = [session EXCEPT ![p] = IF ok THEN "Some" ELSE "Err"]
    /\ Did(p, {"install"})
    /\ UNCHANGED <<backing, socket_file, bound>>
    /\ UNCHANGED <<coreVars, chanVars, watchVars, versionVars, configVars, interleaveVars>>

\* ListenerOptions::new().name(socket_name).create_sync() succeeds when the
\* name is free
name_free == IF backing = "file" THEN ~socket_file ELSE bound = 0

\* the state of the session LeaderSession::new has returned
NewSession ==
    /\ subgraphs' = EmptyMap
    /\ router_state' = "Installed"
    /\ schema_written' = FALSE
    /\ running' = TRUE
    /\ ever_added' = FALSE
    /\ last' = NoExchange
    /\ composition' = "none"
    /\ exit' = NoExit

\* receive_messages_from_attached_sessions creates the listener: the process
\* serves the socket and runs the leader loop. From here on the registry and
\* the router of the model are those of this session, the one the socket
\* name reaches.
CreateListener(p) ==
    /\ session[p] = "Some"
    /\ name_free
    /\ socket_file' = (IF backing = "file" THEN TRUE ELSE socket_file)
    /\ bound' = p
    /\ session' = [session EXCEPT ![p] = "leader"]
    /\ Did(p, {"create_sync"})
    /\ NewSession
    /\ UNCHANGED backing
    /\ UNCHANGED <<chanVars, watchVars, versionVars, configVars, interleaveVars>>

\* create_sync fails: listen_for_all_subgraph_updates returns the Err
CreateListenerErr(p) ==
    /\ session[p] = "Some"
    /\ ~name_free
    /\ session' = [session EXCEPT ![p] = "listen_err"]
    /\ Did(p, {"create_sync"})
    /\ UNCHANGED <<backing, socket_file, bound>>
    /\ UNCHANGED <<coreVars, chanVars, watchVars, versionVars, configVars, interleaveVars>>

\* shutdown(): remove the socket file and exit, the listener of the process,
\* if it has one, closing with it
shutdown(p) ==
    /\ socket_file' = FALSE
    /\ bound' = IF bound = p \/ backing = "file" THEN 0 ELSE bound
    /\ session' = [session EXCEPT ![p] = "exited"]
    /\ UNCHANGED <<backing, done>>

\* the session that could not listen is dropped: Drop calls shutdown
DropSession(p) ==
    /\ session[p] = "listen_err"
    /\ shutdown(p)
    /\ UNCHANGED <<coreVars, chanVars, watchVars, versionVars, configVars, interleaveVars>>

\* a leader handles a Shutdown message
LeaderShutdown(p) ==
    /\ session[p] = "leader"
    /\ shutdown(p)
    /\ UNCHANGED <<coreVars, chanVars, watchVars, versionVars, configVars, interleaveVars>>

\* the messages the watchers of a leader send to it in ElectionSpec
ElectionMessages == {AddSubgraph("users", "http://u/", 1)}

\* the leader the socket name reaches handles a message of one of its watchers
LeaderHandles(m) ==
    /\ bound # 0
    /\ session[bound] = "leader"
    /\ Handle(m)
    /\ UNCHANGED <<session, backing, socket_file, bound, done>>
    /\ UNCHANGED <<chanVars, watchVars, versionVars, configVars, interleaveVars>>

OnConnectOk == \E p \in Procs : ConnectOk(p)
OnConnectErr == \E p \in Procs : ConnectErr(p)
OnRemoveFile == \E p \in Procs : RemoveFile(p)
OnBindRouterAddr == \E p \in Procs : \E ok \in BOOLEAN : BindRouterAddr(p, ok)
OnInstall == \E p \in Procs : \E ok \in BOOLEAN : Install(p, ok)
OnCreateListener == \E p \in Procs : CreateListener(p)
OnCreateListenerErr == \E p \in Procs : CreateListenerErr(p)
OnDropSession == \E p \in Procs : DropSession(p)
OnLeaderShutdown == \E p \in Procs : LeaderShutdown(p)
OnLeaderHandles == running /\ \E m \in ElectionMessages : LeaderHandles(m)

ElectionNext ==
    \/ OnConnectOk
    \/ OnConnectErr
    \/ OnRemoveFile
    \/ OnBindRouterAddr
    \/ OnInstall
    \/ OnCreateListener
    \/ OnCreateListenerErr
    \/ OnDropSession
    \/ OnLeaderShutdown
    \/ OnLeaderHandles

\* ---------------------------------------------------------------- watcher
\* The largest retry budget (--subgraph-retries) of the model
MaxRetries == 2

WatcherKinds == {"Introspect", "File", "Once"}
\* the subgraph the watcher watches, and the SDL of a Once watcher
subgraph_key == <<"users", "http://u/">>
OnceSdl == 1

\* Option<String>: None, Some(sdl), and Some(e.to_string()) for a fetch error
None == [some |-> FALSE, text |-> 0]
Some(text) == [some |-> TRUE, text |-> text]
ErrorText == 0

\* What a step of the watcher did: the result of its fetch ("ok", "err"), the
\* message it sent and whether the send succeeded, and, as they were before
\* the step, whether a RemoveSubgraph had been delivered, the last SDL
\* delivered and the failed fetches in a row (the failed fetch of the step
\* counted in).
NoEmit ==
    [fetch |-> "none", msg |-> NoMessage, delivered |-> FALSE, after_removal |-> FALSE,
     last_sdl |-> 0, failures |-> 0]
Emit(fetch, msg, delivered, n) ==
    [fetch |-> fetch, msg |-> msg, delivered |-> delivered, after_removal |-> was_removed,
     last_sdl |-> pushed, failures |-> n]

\* the countdown that stays as it is after a successful fetch
countdown_after_success_kept == subgraph_retry_countdown

\* self.subgraph_retry_countdown = self.subgraph_retries
countdown_after_success == subgraph_retries

\* new_from_file_path, new_from_sdl, new_from_introspect_runner: the watcher
\* as constructed, watch_subgraph_for_changes about to run
WatchInit ==
    /\ schema_watcher_kind \in WatcherKinds
    /\ subgraph_retries \in 0..MaxRetries
    /\ subgraph_retry_countdown = 0
    /\ last_message = None
    /\ watcher_pc = "start"
    /\ emit = NoEmit
    /\ last_sent = NoMessage
    /\ was_removed = FALSE
    /\ failures = 0
    /\ pushed = 0

\* no watcher runs
NoWatcher ==
    /\ schema_watcher_kind = "Once"
    /\ subgraph_retries = 0
    /\ subgraph_retry_countdown = 0
    /\ last_message = None
    /\ watcher_pc = "Ok"
    /\ emit = NoEmit
    /\ last_sent = NoMessage
    /\ was_removed = FALSE
    /\ failures = 0
    /\ pushed = 0

\* the last_message watch_subgraph_for_changes passes to update_subgraph
PassedMessage == IF schema_watcher_kind = "Once" THEN None ELSE last_message

\* the message update_subgraph sends for a fetched sdl, NoMessage if none
MessageFor(lm, sdl) ==
    IF ~lm.some THEN AddSubgraph(subgraph_key[1], subgraph_key[2], sdl)
    ELSE IF lm.text # sdl THEN UpdateSubgraph(subgraph_key[1], subgraph_key[2], sdl)
    ELSE NoMessage

\* a watch_subgraph_for_changes that loops for every kind of watcher
AfterUpdate_loops == "loop"

\* where watch_subgraph_for_changes is after an update_subgraph that returned Ok
AfterUpdate == IF schema_watcher_kind = "Once" THEN "Ok" ELSE "loop"

\* update_subgraph, the fetch returning sdl: the message, if any, is sent, the
\* countdown reset and Some(sdl) returned; a send that fails returns the Err
FetchOk(sdl, delivered) ==
    LET msg == MessageFor(PassedMessage, sdl) IN
    /\ watcher_pc \in {"start", "loop"}
    /\ msg = NoMessage => delivered
    /\ IF msg # NoMessage /\ ~delivered
       THEN /\ watcher_pc' = "Err"
            /\ emit' = Emit("ok", msg, FALSE, failures)
            /\ last_sent' = msg
            /\ UNCHANGED <<subgraph_retry_countdown, last_message, failures, pushed>>
       ELSE /\ watcher_pc' = AfterUpdate
            /\ emit' = Emit("ok", msg, msg # NoMessage, failures)
            /\ last_sent' = IF msg = NoMessage THEN last_sent ELSE msg
            /\ subgraph_retry_countdown' = countdown_after_success
            /\ last_message' = IF schema_watcher_kind = "Once" THEN last_message
                               ELSE Some(sdl)
            /\ failures' = 0
            /\ pushed' = IF msg = NoMessage THEN pushed ELSE sdl
    /\ UNCHANGED <<schema_watcher_kind, subgraph_retries, was_removed>>
    /\ UNCHANGED <<coreVars, chanVars, electVars, versionVars, configVars, interleaveVars>>

\* update_subgraph, the fetch failing: with retries left the countdown is
\* decremented and Some(e.to_string()) returned; with none left
\* RemoveSubgraph is sent and None returned
FetchErr(delivered) ==
    /\ watcher_pc \in {"start", "loop"}
    /\ schema_watcher_kind # "Once"
    /\ IF subgraph_retry_countdown > 0
       THEN /\ delivered
            /\ subgraph_retry_countdown' = subgraph_retry_countdown - 1
            /\ last_message' = Some(ErrorText)
            /\ watcher_pc' = "loop"
            /\ emit' = Emit("err", NoMessage, FALSE, failures + 1)
            /\ failures' = failures + 1
            /\ UNCHANGED <<was_removed, last_sent>>
       ELSE /\ emit' = Emit("err", RemoveSubgraph(subgraph_key[1]), delivered, failures + 1)
            /\ last_sent' = RemoveSubgraph(subgraph_key[1])
            /\ failures' = 0
            /\ was_removed' = (was_removed \/ delivered)
            /\ last_message' = IF delivered THEN None ELSE last_message
            /\ watcher_pc' = IF delivered THEN "loop" ELSE "Err"
            /\ UNCHANGED subgraph_retry_countdown
    /\ UNCHANGED <<schema_watcher_kind, subgraph_retries, pushed>>
    /\ UNCHANGED <<coreVars, chanVars, electVars, versionVars, configVars, interleaveVars>>

\* rx.recv() of the File watcher returns an error: the watcher returns it
WatchErr ==
    /\ watcher_pc = "loop"
    /\ schema_watcher_kind = "File"
    /\ watcher_pc' = "Err"
    /\ emit' = Emit("none", NoMessage, FALSE, failures)
    /\ UNCHANGED <<schema_watcher_kind, subgraph_retries, subgraph_retry_countdown,
                   last_message, last_sent, was_removed, failures, pushed>>
    /\ UNCHANGED <<coreVars, chanVars, electVars, versionVars, configVars, interleaveVars>>

OnFetchOk ==
    \E sdl \in Sdls : \E delivered \in BOOLEAN :
        (schema_watcher_kind = "Once" => sdl = OnceSdl) /\ FetchOk(sdl, delivered)
OnFetchErr == \E delivered \in BOOLEAN : FetchErr(delivered)

WatcherNext ==
    \/ OnFetchOk
    \/ OnFetchErr
    \/ WatchErr

\* ------------------------------------------------------ federation version
\* The version numbers of the model: major.minor.patch
MaxMajor == 2
MaxMinor == 1
MaxPatch == 1
Versions == [major : 0..MaxMajor, minor : 0..MaxMinor, patch : 0..MaxPatch]

\* FederationVersion
ExactFedOne(v) == [tag |-> "ExactFedOne", v |-> v]
ExactFedTwo(v) == [tag |-> "ExactFedTwo", v |-> v]
LatestFedOne == [tag |-> "LatestFedOne"]
LatestFedTwo == [tag |-> "LatestFedTwo"]

\* Option<_>
NoneValue == [some |-> FALSE]
SomeValue(x) == [some |-> TRUE, value |-> x]

\* The strings of the environment variable: "major.minor.patch", or a text
\* that is no version number
Semver(v) == [semver |-> TRUE, v |-> v]
Text(t) == [semver |-> FALSE, text |-> t]
EnvStrings == {Semver(v) : v \in Versions} \cup {Text("crackers")}

EnvVars == {NoneValue} \cup {SomeValue(e) : e \in EnvStrings}
ConfigVersions ==
    {NoneValue}
    \cup {SomeValue(ExactFedOne(v)) : v \in {w \in Versions : w.major = 0}}
    \cup {SomeValue(ExactFedTwo(v)) : v \in {w \in Versions : w.major = 2}}
    \cup {SomeValue(LatestFedOne), SomeValue(LatestFedTwo)}

\* FederationVersion::from_str(&format!("={}", version)): an exact version of
\* federation 1 (major 0) or federation 2 (major 2), an error for anything else
from_str(version) ==
    IF ~version.semver THEN [ok |-> FALSE]
    ELSE IF version.v.major = 0 THEN [ok |-> TRUE, value |-> ExactFedOne(version.v)]
    ELSE IF version.v.major = 2 THEN [ok |-> TRUE, value |-> ExactFedTwo(version.v)]
    ELSE [ok |-> FALSE]

\* get_federation_version with the supergraph config before the environment
get_federation_version_config_first(config, env) ==
    IF config.some THEN [ok |-> TRUE, value |-> config.value]
    ELSE IF env.some /\ from_str(env.value).ok THEN from_str(env.value)
    ELSE [ok |-> TRUE, value |-> LatestFedTwo]

\* LeaderSession::get_federation_version(sc_config_version, env_var)
get_federation_version(config, env) ==
    LET env_var_version ==
            IF env.some
            THEN IF from_str(env.value).ok THEN SomeValue(from_str(env.value).value)
                 ELSE NoneValue
            ELSE NoneValue
    IN  IF env_var_version.some THEN [ok |-> TRUE, value |-> env_var_version.value]
        ELSE [ok |-> TRUE,
              value |-> IF config.some THEN config.value ELSE LatestFedTwo]

Unresolved == [ok |-> FALSE, value |-> "unresolved"]

VersionInit ==
    /\ env_var \in EnvVars
    /\ sc_config_version \in ConfigVersions
    /\ federation_version = Unresolved

\* no version is being resolved
NoVersion ==
    /\ env_var = NoneValue
    /\ sc_config_version = NoneValue
    /\ federation_version = Unresolved

\* Self::get_federation_version(config_fed_version, OVERRIDE_DEV_COMPOSITION_VERSION)
Resolve ==
    /\ federation_version = Unresolved
    /\ federation_version' = get_federation_version(sc_config_version, env_var)
    /\ UNCHANGED <<env_var, sc_config_version>>
    /\ UNCHANGED <<coreVars, chanVars, electVars, watchVars, configVars, interleaveVars>>

VersionNext == Resolve

\* ------------------------------------------------------ supergraph config
\* SubgraphDefinition::new(name, url, sdl)
SubgraphDefinition_new(name, url, sdl) == [name |-> name, url |-> url, sdl |-> sdl]

\* The orders in which self.subgraphs.iter() may yield the keys: the
\* iteration order of a HashMap is not defined
IterationOrders(map) ==
    {o \in [1..Cardinality(DOMAIN map) -> DOMAIN map] :
        \A i, j \in 1..Cardinality(DOMAIN map) : o[i] = o[j] => i = j}

\* SupergraphConfig::from(Vec<SubgraphDefinition>): the first n definitions
\* inserted, in order, into the map of the config, which is keyed by name
RECURSIVE into_subgraphs(_, _)
into_subgraphs(defs, n) ==
    IF n = 0 THEN EmptyMap
    ELSE LET m == into_subgraphs(defs, n - 1)
             d == defs[n]
         IN  [k \in (DOMAIN m) \cup {d.name} |->
                 IF k = d.name THEN [routing_url |-> d.url, sdl |-> d.sdl] ELSE m[k]]

\* LeaderSession::supergraph_config for the iteration order met
supergraph_config(map, version, order) ==
    LET defs == [i \in DOMAIN order |->
                    SubgraphDefinition_new(order[i][1], order[i][2], map[order[i]])]
    IN  [subgraphs |-> into_subgraphs(defs, Cardinality(DOMAIN order)),
         federation_version |-> SomeValue(version)]

\* no config is being built
NoConfig == supergraph = NoneValue

\* The registries a leader may hold
Registries == UNION {[keys -> Sdls] : keys \in SUBSET SubgraphKeys}

\* A leader that has added the entries of a registry, every composition
\* failing, and has then answered a HealthCheck
RegistryInit ==
    /\ subgraphs \in Registries
    /\ router_state = "Installed"
    /\ schema_written = FALSE
    /\ running = TRUE
    /\ ever_added = (subgraphs # EmptyMap)
    /\ last = [msg |-> HealthCheck, before |-> subgraphs, router_before |-> "Installed",
               reply |-> message_received, comp |-> NoComposition, first |-> FALSE]
    /\ composition = IF subgraphs = EmptyMap THEN "none" ELSE "Err"
    /\ exit = NoExit

\* The federation version as LeaderSession::new has resolved it
ResolvedInit ==
    /\ env_var \in EnvVars
    /\ sc_config_version \in ConfigVersions
    /\ federation_version = get_federation_version(sc_config_version, env_var)

\* compose() calls self.supergraph_config()
OnSupergraphConfig ==
    /\ running
    /\ \E order \in IterationOrders(subgraphs) :
          supergraph' =
              SomeValue(supergraph_config(subgraphs, federation_version.value, order))
    /\ UNCHANGED <<coreVars, chanVars, electVars, watchVars, versionVars, interleaveVars>>

ConfigNext == OnSupergraphConfig

\* ------------------------------------------------- interleaved watchers
NumWatchers == 2
MaxSent == 2
Watchers == 1..NumWatchers

\* The messages a watcher of the subgraph key sends: add_subgraph and
\* update_subgraph with the SDL it fetched, remove_subgraph with the name
WatcherMessages(key) ==
    {AddSubgraph(key[1], key[2], s) : s \in Sdls}
    \cup {UpdateSubgraph(key[1], key[2], s) : s \in Sdls}
    \cup {RemoveSubgraph(key[1])}

\* What a watcher of one of the keys may send: up to MaxSent messages for
\* its subgraph key
WatcherSends(keys) ==
    UNION {UNION {[1..n -> WatcherMessages(key)] : n \in 0..MaxSent} : key \in keys}

\* no watcher sends
NoInterleaving ==
    /\ sent = [w \in Watchers |-> <<>>]
    /\ queues = sent

\* The first watcher watches subgraph_key, the others any subgraph: the
\* same key, the same name at another URL, or another name
InterleaveInit ==
    /\ sent \in [Watchers -> WatcherSends(SubgraphKeys)]
    /\ sent[1] \in WatcherSends({subgraph_key})
    /\ queues = sent

\* One turn of receive_all_subgraph_updates: the next message of one of the
\* watchers is received and handled
OnWatcherMessage ==
    /\ running
    /\ \E w \in Watchers :
          /\ queues[w] # <<>>
          /\ Handle(Head(queues[w]))
          /\ queues' = [queues EXCEPT ![w] = Tail(@)]
    /\ UNCHANGED <<sent, chanVars, electVars, watchVars, versionVars, configVars>>

InterleaveNext == OnWatcherMessage

\* ------------------------------------------------------------------- Spec
\* The leader loop fed one follower message at a time.
OnAddSubgraph ==
    /\ running
    /\ \E n \in SubgraphNames, u \in Urls, s \in Sdls : Handle(AddSubgraph(n, u, s))
    /\ UNCHANGED <<chanVars, electVars, watchVars, versionVars, configVars, interleaveVars>>
OnUpdateSubgraph ==
    /\ running
    /\ \E n \in SubgraphNames, u \in Urls, s \in Sdls : Handle(UpdateSubgraph(n, u, s))
    /\ UNCHANGED <<chanVars, electVars, watchVars, versionVars, configVars, interleaveVars>>
OnRemoveSubgraph ==
    /\ running
    /\ \E n \in SubgraphNames : Handle(RemoveSubgraph(n))
    /\ UNCHANGED <<chanVars, electVars, watchVars, versionVars, configVars, interleaveVars>>
OnGetSubgraphs == running /\ Handle(GetSubgraphs) /\ UNCHANGED <<chanVars, electVars, watchVars, versionVars, configVars, interleaveVars>>
OnHealthCheck == running /\ Handle(HealthCheck) /\ UNCHANGED <<chanVars, electVars, watchVars, versionVars, configVars, interleaveVars>>
OnGetVersion ==
    /\ running
    /\ \E v \in FollowerVersions : Handle(GetVersion(v))
    /\ UNCHANGED <<chanVars, electVars, watchVars, versionVars, configVars, interleaveVars>>
OnShutdown == running /\ HandleShutdown(Shutdown) /\ UNCHANGED <<chanVars, electVars, watchVars, versionVars, configVars, interleaveVars>>
OnDrop == running /\ Drop /\ UNCHANGED <<chanVars, electVars, watchVars, versionVars, configVars, interleaveVars>>

Init ==
    CoreInit /\ ChanInit /\ NoElection /\ NoWatcher /\ NoVersion
    /\ NoConfig /\ NoInterleaving

Next ==
    \/ OnAddSubgraph
    \/ OnUpdateSubgraph
    \/ OnRemoveSubgraph
    \/ OnGetSubgraphs
    \/ OnHealthCheck
    \/ OnGetVersion
    \/ OnShutdown
    \/ OnDrop

vars == <<coreVars, chanVars, electVars, watchVars, versionVars, configVars, interleaveVars>>

Spec == Init /\ [][Next]_vars

\* The leader loop behind its two channels
ChannelSpec == Init /\ [][ChannelNext]_vars

\* The threads of the leader process keep running while they can take a
\* step, and a sender blocked on the follower channel is served in its turn.
ChannelFairness ==
    /\ WF_vars(MainHandle) /\ WF_vars(MainShutdown)
    /\ WF_vars(MainSend) /\ WF_vars(MainSendReturns)
    /\ \A r \in Requesters :
          SF_vars(MainRecvFrom(r)) /\ WF_vars(SendReturns(r)) /\ WF_vars(Recv(r))
    /\ WF_vars(WorkerWrite)

FairChannelSpec == ChannelSpec /\ ChannelFairness

\* Processes starting a leader session against the same socket name
ElectionInit ==
    CoreInit /\ ChanInit /\ ElectInit /\ NoWatcher /\ NoVersion
    /\ NoConfig /\ NoInterleaving

ElectionSpec == ElectionInit /\ [][ElectionNext]_vars

\* One watcher, from its construction on
WatcherInit ==
    CoreInit /\ ChanInit /\ NoElection /\ WatchInit /\ NoVersion
    /\ NoConfig /\ NoInterleaving

WatcherSpec == WatcherInit /\ [][WatcherNext]_vars

\* One resolution of the federation version, for every pair of inputs
VersionSpecInit ==
    CoreInit /\ ChanInit /\ NoElection /\ NoWatcher /\ VersionInit
    /\ NoConfig /\ NoInterleaving

VersionSpec == VersionSpecInit /\ [][VersionNext]_vars

\* supergraph_config applied to every registry and federation version
ConfigInit ==
    RegistryInit /\ ChanInit /\ NoElection /\ NoWatcher /\ ResolvedInit
    /\ NoConfig /\ NoInterleaving

ConfigSpec == ConfigInit /\ [][ConfigNext]_vars

\* The leader loop fed the messages of the watchers, in every interleaving
InterleaveSpecInit ==
    CoreInit /\ ChanInit /\ NoElection /\ NoWatcher /\ NoVersion
    /\ NoConfig /\ InterleaveInit

InterleaveSpec == InterleaveSpecInit /\ [][InterleaveNext]_vars

\* ----------------------------------------------------- registry claims
CS == "CompositionSuccess"
MR == "MessageReceived"
EN == "ErrorNotification"

LastKey == <<last.msg.name, last.msg.url>>
\* compose() ran in the last exchange and returned Ok
Recomposed == last.comp.run # "none"
CompositionOk == last.comp.run \in {"NoNew", "New"} /\ last.comp.spawn # "err"
\* compose() returned Ok(Some(_)): a new schema, handed to the router
NewSchema == last.comp.run = "New" /\ last.comp.spawn = "ok"
RouterUntouched ==
    last.comp.spawn = "none" /\ last.comp.kill = "none" /\ router_state = last.router_before

\* C4: add(entry) with the exact key absent inserts the entry and
\* recomposes; when the composition does not fail the reply is
\* CompositionSuccess exactly when a new schema was produced and the registry
\* was non-empty before, and MessageReceived otherwise.
C4_AddAbsent ==
    (last.msg.kind = "AddSubgraph" /\ LastKey \notin DOMAIN last.before) =>
        /\ subgraphs = Insert(last.before, LastKey, last.msg.sdl)
        /\ Recomposed
        /\ CompositionOk =>
              last.reply = IF NewSchema /\ DOMAIN last.before # {}
                           THEN add_subgraph_composition_success(last.msg.name)
                           ELSE message_received
C4_Witness ==
    /\ last.msg.kind = "AddSubgraph" /\ LastKey \notin DOMAIN last.before
    /\ DOMAIN last.before # {}
    /\ last.reply.kind = CS

\* C5: add(entry) with the exact key present replies ErrorNotification,
\* leaves the registry unchanged (the stored SDL is kept), runs no composition
\* and does not touch the router.
C5_AddPresent ==
    (last.msg.kind = "AddSubgraph" /\ LastKey \in DOMAIN last.before) =>
        /\ last.reply.kind = EN
        /\ subgraphs = last.before
        /\ ~Recomposed
        /\ RouterUntouched
C5_Witness ==
    /\ last.msg.kind = "AddSubgraph" /\ LastKey \in DOMAIN last.before
    /\ last.before[LastKey] # last.msg.sdl
    /\ router_state = "Running"

\* C6: the registry never holds two keys with the same name and different
\* URLs.
C6_OneUrlPerName ==
    \A k1 \in DOMAIN subgraphs, k2 \in DOMAIN subgraphs : k1[1] = k2[1] => k1 = k2

\* The exchange recorded in `last` handled UpdateSubgraph for an entry the
\* registry already stored with the same SDL.
IdenticalUpdate(x) ==
    /\ x.msg.kind = "UpdateSubgraph"
    /\ <<x.msg.name, x.msg.url>> \in DOMAIN x.before
    /\ x.before[<<x.msg.name, x.msg.url>>] = x.msg.sdl

\* C7: update(E) on a registry that stores E's key with an identical SDL
\* replies MessageReceived and changes nothing (no recomposition, router
\* untouched); and update(E) handled twice in a row leaves, the second time,
\* the registry as the first left it, the two replies holding at most one
\* CompositionSuccess.
C7_UpdateIdempotent ==
    /\ [](IdenticalUpdate(last) =>
            /\ last.reply = message_received
            /\ subgraphs = last.before
            /\ ~Recomposed
            /\ RouterUntouched)
    /\ [][(last.msg.kind = "UpdateSubgraph" /\ last'.msg = last.msg) =>
            /\ subgraphs' = subgraphs
            /\ ~(last.reply.kind = CS /\ last'.reply.kind = CS)]_vars
C7_Witness ==
    /\ IdenticalUpdate(last)
    /\ last.reply = message_received
    /\ router_state = "Running"

\* remove(name) in the last exchange, with a key of that name stored
RemoveFound ==
    last.msg.kind = "RemoveSubgraph" /\ FindByName(last.before, last.msg.name) # {}
RemoveAbsent ==
    last.msg.kind = "RemoveSubgraph" /\ FindByName(last.before, last.msg.name) = {}
RemovedOne ==
    \E k \in FindByName(last.before, last.msg.name) : subgraphs = Remove(last.before, k)

\* C8 as claimed: a found key is removed (exactly one entry) and the registry
\* recomposed, the reply being CompositionSuccess on a new schema and
\* MessageReceived otherwise; with no key of the name the reply is
\* MessageReceived, the registry unchanged, nothing recomposed.
C8_Remove_Claimed ==
    /\ RemoveFound =>
          /\ RemovedOne
          /\ Recomposed
          /\ last.reply = IF NewSchema
                           THEN remove_subgraph_composition_success(last.msg.name)
                           ELSE message_received
    /\ RemoveAbsent =>
          /\ last.reply = message_received
          /\ subgraphs = last.before
          /\ ~Recomposed

\* C8 amended: as claimed, the reply of a found removal being
\* CompositionSuccess or MessageReceived when the composition does not fail.
C8_Remove ==
    /\ RemoveFound =>
          /\ RemovedOne
          /\ Recomposed
          /\ CompositionOk =>
                last.reply = IF NewSchema
                             THEN remove_subgraph_composition_success(last.msg.name)
                             ELSE message_received
    /\ RemoveAbsent =>
          /\ last.reply = message_received
          /\ subgraphs = last.before
          /\ ~Recomposed
C8_Witness ==
    /\ RemoveFound
    /\ Cardinality(FindByName(last.before, last.msg.name)) = 2
    /\ Cardinality(DOMAIN subgraphs) = Cardinality(DOMAIN last.before) - 1
    /\ last.reply.kind = CS

\* add(E) into the empty registry is the exchange x, remove(E.name) the
\* exchange y that follows it
AddThenRemove(x, y) ==
    /\ x.msg.kind = "AddSubgraph" /\ x.before = EmptyMap
    /\ y.msg = RemoveSubgraph(x.msg.name)
ExchangeOk(x) == x.comp.run \in {"NoNew", "New"} /\ x.comp.spawn # "err"

\* C9 as claimed: add(E); remove(E.name) from the empty registry leaves it
\* empty, with at most one CompositionSuccess and no ErrorNotification.
C9_AddRemove_Claimed ==
    [][AddThenRemove(last, last') =>
         /\ subgraphs' = EmptyMap
         /\ ~(last.reply.kind = CS /\ last'.reply.kind = CS)
         /\ last.reply.kind # EN /\ last'.reply.kind # EN]_vars

\* C9 amended: the registry is empty again and at most one reply is a
\* CompositionSuccess; no reply is an ErrorNotification when neither
\* composition fails.
C9_AddRemove ==
    [][AddThenRemove(last, last') =>
         /\ subgraphs' = EmptyMap
         /\ ~(last.reply.kind = CS /\ last'.reply.kind = CS)
         /\ (ExchangeOk(last) /\ ExchangeOk(last')) =>
               (last.reply.kind # EN /\ last'.reply.kind # EN)]_vars
C9_Witness ==
    /\ RemoveFound
    /\ Cardinality(DOMAIN last.before) = 1
    /\ subgraphs = EmptyMap
    /\ last.reply.kind = CS
    /\ ever_added

\* The last exchange changed the registry through add, update or remove
SchemaChanging ==
    last.msg.kind \in {"AddSubgraph", "UpdateSubgraph", "RemoveSubgraph"} /\ Recomposed
\* The last exchange inserted an entry (add, or update of an absent key)
Inserted == Inserts(last.msg, last.before)

\* C10 as claimed: the first add that inserts never replies
\* CompositionSuccess, and every later schema-changing exchange whose
\* composition yields a new schema does.
C10_FirstSchema_Claimed ==
    /\ last.first => last.reply.kind # CS
    /\ (SchemaChanging /\ ~last.first /\ NewSchema) => last.reply.kind = CS

\* C10 amended: an add into the empty registry (the first add among them)
\* never replies CompositionSuccess; every add into a non-empty registry,
\* update and remove whose composition yields a new schema does.
C10_FirstSchema ==
    /\ last.first => last.before = EmptyMap
    /\ (Inserted /\ last.before = EmptyMap) => last.reply.kind # CS
    /\ (SchemaChanging /\ NewSchema /\ ~(Inserted /\ last.before = EmptyMap)) =>
          last.reply.kind = CS
C10_Witness ==
    /\ Inserted /\ last.before = EmptyMap /\ ~last.first
    /\ NewSchema
    /\ last.reply = message_received

\* C26: GetSubgraphs, HealthCheck and GetVersion leave the registry and the
\* router as they were and run no composition; GetSubgraphs is answered with
\* LeaderSessionInfo listing exactly the keys of the registry, HealthCheck
\* with MessageReceived, GetVersion(v) with GetVersion carrying v as the
\* follower's version and the leader's own version.
C26_ReadOnly ==
    last.msg.kind \in {"GetSubgraphs", "HealthCheck", "GetVersion"} =>
        /\ subgraphs = last.before
        /\ last.comp = NoComposition
        /\ RouterUntouched
        /\ last.msg.kind = "GetSubgraphs" =>
              last.reply = [kind |-> "LeaderSessionInfo", subgraphs |-> DOMAIN subgraphs]
        /\ last.msg.kind = "HealthCheck" => last.reply = [kind |-> MR]
        /\ last.msg.kind = "GetVersion" =>
              last.reply = [kind |-> "GetVersion",
                            follower_version |-> last.msg.follower_version,
                            leader_version |-> PKG_VERSION]

\* GetSubgraphs answered while two entries are registered and the router runs
C26_Witness ==
    /\ last.msg.kind = "GetSubgraphs"
    /\ Cardinality(DOMAIN subgraphs) = 2
    /\ last.reply.subgraphs = DOMAIN subgraphs
    /\ router_state = "Running"

\* ------------------------------------------------------- action claims
Succeeded(kind) == last.reply.kind = CS /\ last.msg.kind = kind

Alive == router_state = "Running"
Dead == router_state = "Installed"

\* C11: whenever the router process is alive, the last call of compose()
\* succeeded and a composed schema exists; and the router becomes or stays
\* alive over an exchange only when that exchange spawned it on a new schema,
\* or when it was alive and the exchange composed nothing new without failing.
C11_RouterAlive ==
    /\ [](Alive => composition = "Ok" /\ schema_written)
    /\ [][Alive' =>
            \/ last'.comp.run = "New" /\ last'.comp.spawn = "ok"
            \/ Alive /\ last'.comp.run \in {"none", "NoNew"}]_vars

\* the router is alive after a composition that reported no new schema
C11_Witness ==
    /\ Alive /\ running
    /\ last.comp.run = "NoNew"
    /\ last.router_before = "Running"

\* as claimed: a dead router of a leader that is not tearing down means that
\* no composition has succeeded so far
C12_RouterDead_Claimed ==
    (Dead /\ running) => last.router_before # "Running" /\ composition # "Ok"

\* C12: the router process goes from alive to dead only over an exchange
\* whose composition or router spawn failed, or in the teardown; a dead router
\* of a running leader whose compose() was never called has no schema.
C12_RouterDead ==
    /\ []((Dead /\ running /\ composition = "none") => ~schema_written)
    /\ [][(Alive /\ Dead') =>
            \/ ~running'
            \/ composition' = "Err" /\ (last'.comp.run = "Err" \/ last'.comp.spawn = "err")]_vars

\* the router was alive, a composition failed and the router is dead, the
\* leader still running
C12_Witness ==
    /\ Dead /\ running
    /\ last.router_before = "Running"
    /\ last.comp.run = "Err"
    /\ composition = "Err"

\* C13: while the leader is not shutting down and once compose() has been
\* called, the router is alive exactly when the last call of compose()
\* succeeded.
C13_AliveIffComposed ==
    (running /\ composition # "none") => (Alive <=> composition = "Ok")

\* C17: when the process has terminated through shutdown(), from a Shutdown
\* message or from the destruction of the session, the kill of the router and
\* the removal of the socket file have both been attempted, whatever the kill
\* returned, and the exit status is not zero.
C17_Shutdown ==
    ~running =>
        /\ exit.kill \in {"ok", "err"}
        /\ exit.remove_file \in {"ok", "err"}
        /\ exit.status # 0

\* the leader has exited on a Shutdown message, the router having been alive
\* and its kill having failed
C17_Witness ==
    /\ ~running
    /\ last.msg.kind = "Shutdown" /\ last.router_before = "Running"
    /\ exit.kill = "err" /\ exit.remove_file = "ok" /\ exit.status = 1

ComposerFailed == last.comp.run = "Err"
SpawnFailed == last.comp.run = "New" /\ last.comp.spawn = "err"

\* C21: when the composition of an exchange fails, the composer returning an
\* error or the router spawn failing on a new schema, the reply is the
\* ErrorNotification of that error, whatever the kill of the router returned,
\* the kill has been attempted and the router is not running.
C21_FailedComposition ==
    /\ ComposerFailed =>
          /\ last.reply = [kind |-> EN, error |-> "composition error"]
          /\ last.comp.spawn = "none"
    /\ SpawnFailed => last.reply = [kind |-> EN, error |-> "router spawn error"]
    /\ (ComposerFailed \/ SpawnFailed) =>
          /\ last.comp.kill \in {"ok", "err"}
          /\ running => Dead

\* the router was running, the spawn on a new schema has failed and so has
\* the kill: the reply carries the error of the spawn
C21_Witness ==
    /\ SpawnFailed
    /\ last.router_before = "Running"
    /\ last.comp.kill = "err"
    /\ last.reply = [kind |-> EN, error |-> "router spawn error"]
    /\ running /\ Dead

\* C31: when the composition of an add, update or remove fails, the reply is
\* ErrorNotification and the registry keeps the change: the entry inserted,
\* the SDL replaced, the key removed. The same add handled next is answered
\* with the 'already exists' ErrorNotification, the same update with
\* MessageReceived, and neither runs a composition.
C31_NoRollback ==
    /\ []((ComposerFailed \/ SpawnFailed) =>
            /\ last.reply.kind = EN
            /\ last.msg.kind \in {"AddSubgraph", "UpdateSubgraph", "RemoveSubgraph"}
            /\ last.msg.kind \in {"AddSubgraph", "UpdateSubgraph"} =>
                  /\ subgraphs = Insert(last.before, LastKey, last.msg.sdl)
                  /\ subgraphs # last.before
            /\ last.msg.kind = "RemoveSubgraph" =>
                  \E k \in FindByName(last.before, last.msg.name) :
                      subgraphs = Remove(last.before, k))
    /\ [][((ComposerFailed \/ SpawnFailed) /\ last'.msg = last.msg
               /\ last.msg.kind \in {"AddSubgraph", "UpdateSubgraph"})
           => /\ subgraphs' = subgraphs
              /\ last'.comp = NoComposition
              /\ last.msg.kind = "AddSubgraph" =>
                    last'.reply = error(<<"already exists", last.msg.name, last.msg.url>>)
              /\ last.msg.kind = "UpdateSubgraph" =>
                    last'.reply = message_received]_vars

\* the composition of an update that replaced the SDL of an entry has
\* failed: the reply is ErrorNotification and the registry has the new SDL
C31_Witness ==
    /\ ComposerFailed
    /\ last.msg.kind = "UpdateSubgraph"
    /\ LastKey \in DOMAIN last.before
    /\ last.before[LastKey] # last.msg.sdl
    /\ subgraphs[LastKey] = last.msg.sdl
    /\ last.reply.kind = EN

\* ------------------------------------------------------ channel claims
\* r has sent its message and has not yet received the reply
Waiting(r) == rq[r].pc \in {"sending", "receiving"}

\* C2: every reply a requester receives from the leader channel is the reply
\* the loop computed for that requester's own message, never the reply to
\* the message of another requester.
C2_Paired ==
    \A r \in Requesters : rq[r].got # NoReply => rq[r].got.from = r

\* a requester has received its reply while another one was blocked in its send
C2_Witness ==
    \E r, q \in Requesters :
        /\ r # q
        /\ rq[r].got # NoReply /\ rq[r].got.from = r
        /\ q \in follower_chan

Unanswered == conn.read = "valid" /\ conn.written = 0

\* as claimed: no connection with a valid message is left without its reply,
\* the process having exited
C3_Reply_Claimed == ~running => ~Unanswered

\* C3: on a connection with a valid FollowerMessage the worker writes at most
\* one reply, it writes none on a connection whose read failed, it does not go
\* on to another connection before it has written the reply, and it eventually
\* writes the reply unless the process exits first (a Shutdown being handled).
C3_Reply ==
    /\ [](/\ conn.written <= 1
          /\ conn.written = 1 => conn.read = "valid"
          /\ Unanswered => rq[Worker].pc # "idle")
    /\ [][Unanswered => conn'.read = "valid"]_vars
    /\ (Unanswered ~> (conn.written = 1 \/ ~running))

\* the reply to a valid message was written on its connection
C3_Witness ==
    /\ conn.read = "valid" /\ conn.written = 1
    /\ rq[Worker].got.from = Worker
    /\ rq[Worker].pc = "idle"

ReplyKinds ==
    {"ErrorNotification", "MessageReceived", "CompositionSuccess", "LeaderSessionInfo",
     "GetVersion"}

\* C19: the leader process ends only in the handling of a Shutdown message;
\* for every other message, whether its composition or router spawn fails or
\* not, the loop has a reply to send and stays running, and every requester
\* that waits with a message is eventually answered unless a Shutdown ends
\* the process first.
C19_OnlyShutdownStops ==
    /\ [][(running /\ ~running') => (main_pc = "handle" /\ rq[cur].msg = Shutdown)]_vars
    /\ []((running /\ main_pc = "send") =>
            /\ last.msg = rq[cur].msg
            /\ last.reply.kind \in ReplyKinds)
    /\ \A r \in Requesters :
          (r \in follower_chan) ~> (rq[r].got.from = r \/ ~running)

\* a requester has been answered ErrorNotification for a failed composition
\* and the loop has handled the message of another requester after it
C19_Witness ==
    \E r, q \in Requesters :
        /\ r # q /\ running
        /\ rq[r].got.from = r /\ rq[r].got.reply.kind = "ErrorNotification"
        /\ cur = q /\ main_pc = "send"
        /\ last.comp.run # "none"

\* C22: a connection whose read failed with the peer still there (a framing
\* or a decode error) has had an ErrorNotification written on it when the
\* worker is done with it.
C22_ErrorReported ==
    conn.read \in {"Framing", "Decode"} => conn.written = 1

\* ------------------------------------------------------ election claims
Leaders == {p \in Procs : session[p] = "leader"}

\* C1: of the processes that start a leader session against the same socket
\* name, at most one is the leader at any time: in no reachable state are two
\* of them serving the socket and running the leader loop.
C1_OneLeader == Cardinality(Leaders) <= 1

Attached(p) == session[p] = "None"

\* C18: a process that finds a leader listening returns None having done no
\* more than connect and exchange one HealthCheck, and its attach leaves the
\* socket file, the listener behind the name, the leader's registry and the
\* router as they were, the leader replying MessageReceived.
C18_Attach ==
    /\ [](\A p \in Procs : Attached(p) => done[p] = {"connect", "health_check"})
    /\ [][\A p \in Procs : (~Attached(p) /\ Attached(p)') =>
            /\ socket_file' = socket_file /\ bound' = bound
            /\ subgraphs' = subgraphs /\ router_state' = router_state
            /\ schema_written' = schema_written
            /\ last'.msg = HealthCheck /\ last'.reply = message_received]_vars

\* a process has attached to a leader whose registry holds a subgraph
C18_Witness ==
    \E p \in Procs :
        /\ Attached(p)
        /\ bound # 0 /\ bound # p /\ session[bound] = "leader"
        /\ subgraphs # EmptyMap
        /\ last.msg = HealthCheck

\* ------------------------------------------------------- watcher claims
\* C14: a watcher with retry budget subgraph_retries sends RemoveSubgraph only
\* at the failure that makes subgraph_retries + 1 failed fetches in a row, also
\* when the failures come before its first successful fetch.
C14_RemoveAfterBudget ==
    emit.msg.kind = "RemoveSubgraph" => emit.failures = subgraph_retries + 1

\* C15: once its RemoveSubgraph has been delivered the watcher sends no
\* further message: no AddSubgraph or UpdateSubgraph on a later successful
\* fetch, no second RemoveSubgraph on a later failure.
C15_SilentAfterRemove ==
    emit.msg.kind # "none" => ~emit.after_removal

\* C23: a fetch that fails while the countdown is above zero decrements the
\* countdown by exactly one, sends no message, and leaves the value later
\* fetches are compared with, the last known SDL, as it was.
C23_RetriedFailure ==
    [][(subgraph_retry_countdown > 0 /\ emit'.fetch = "err")
        => /\ subgraph_retry_countdown' = subgraph_retry_countdown - 1
           /\ emit'.msg = NoMessage
           /\ last_sent' = last_sent
           /\ last_message' = last_message]_vars

\* C24: a File or Introspect watcher sends UpdateSubgraph for a fetched SDL
\* only if that SDL differs from the last SDL it delivered to the leader; a
\* fetch of the SDL last delivered sends nothing, also after failed fetches.
C24_UpdateOnlyOnChange ==
    (schema_watcher_kind # "Once" /\ emit.fetch = "ok"
        /\ emit.msg.kind = "UpdateSubgraph")
    => emit.msg.sdl # emit.last_sdl

\* C25: a Once watcher takes one step only, which sends AddSubgraph with its
\* SDL, and then has stopped: it never loops, and it never sends
\* UpdateSubgraph or RemoveSubgraph.
C25_OnceAddsOnce ==
    /\ [](schema_watcher_kind = "Once" =>
            /\ watcher_pc \in {"start", "Ok", "Err"}
            /\ watcher_pc = "start" => last_sent = NoMessage
            /\ watcher_pc # "start" =>
                /\ last_sent = AddSubgraph(subgraph_key[1], subgraph_key[2], OnceSdl)
                /\ emit.msg = last_sent
                /\ emit.delivered = (watcher_pc = "Ok"))
    /\ [][schema_watcher_kind = "Once" => watcher_pc = "start" /\ watcher_pc' # "start"]_vars

\* a Once watcher has delivered its AddSubgraph and returned Ok
C25_Witness ==
    /\ schema_watcher_kind = "Once"
    /\ watcher_pc = "Ok"
    /\ emit.msg = AddSubgraph(subgraph_key[1], subgraph_key[2], OnceSdl)
    /\ emit.delivered

\* C29: a File or Introspect watcher that has stopped with an error, the
\* file watch failing or a message not delivered, has sent RemoveSubgraph as
\* its last message.
C29_RemoveOnStop ==
    (schema_watcher_kind # "Once" /\ watcher_pc = "Err")
    => last_sent = RemoveSubgraph(subgraph_key[1])

\* C30: the countdown is between zero and subgraph_retries in every state,
\* and it equals subgraph_retries right after every successful fetch whose
\* message, if one was sent, was delivered.
C30_Countdown ==
    /\ subgraph_retry_countdown \in 0..subgraph_retries
    /\ (emit.fetch = "ok" /\ watcher_pc # "Err")
       => subgraph_retry_countdown = subgraph_retries

\* a successful fetch after MaxRetries failed ones has reset the countdown
\* from zero to a budget of MaxRetries
C30_Witness ==
    /\ emit.fetch = "ok"
    /\ watcher_pc = "loop"
    /\ emit.failures = MaxRetries
    /\ subgraph_retries = MaxRetries
    /\ subgraph_retry_countdown = MaxRetries

\* ------------------------------------------------------- version claims
Resolved == federation_version # Unresolved
EnvVersion == env_var.value.v
EnvSupported == env_var.some /\ env_var.value.semver /\ EnvVersion.major \in {0, 2}

\* C16: get_federation_version never returns an error; it returns the exact
\* version of the environment value when that value is a version number of
\* federation 1 (0.x.y) or 2 (2.x.y), otherwise the version of the supergraph
\* config when there is one, otherwise LatestFedTwo.
C16_Precedence ==
    Resolved =>
        /\ federation_version.ok
        /\ (EnvSupported /\ EnvVersion.major = 2) =>
              federation_version.value = [tag |-> "ExactFedTwo", v |-> EnvVersion]
        /\ (EnvSupported /\ EnvVersion.major = 0) =>
              federation_version.value = [tag |-> "ExactFedOne", v |-> EnvVersion]
        /\ (~EnvSupported /\ sc_config_version.some) =>
              federation_version.value = sc_config_version.value
        /\ (~EnvSupported /\ ~sc_config_version.some) =>
              federation_version.value = [tag |-> "LatestFedTwo"]

\* the environment names a version of federation 1, the supergraph config one
\* of federation 2, and the environment has won
C16_Witness ==
    /\ Resolved
    /\ EnvSupported /\ EnvVersion.major = 0
    /\ sc_config_version.some /\ sc_config_version.value.tag = "ExactFedTwo"
    /\ federation_version.value.tag = "ExactFedOne"

\* -------------------------------------------------------- config claims
\* the entries a supergraph config lists
Listed(config) ==
    {<<name, config.subgraphs[name].routing_url, config.subgraphs[name].sdl>> :
        name \in DOMAIN config.subgraphs}
Entries(map) == {<<k[1], k[2], map[k]>> : k \in DOMAIN map}

\* C27: the composer input lists exactly the entries of the registry, carries
\* the federation version resolved at the start, and is the same for every
\* order in which the entries of the registry may be visited.
C27_ComposerInput ==
    supergraph.some =>
        /\ Listed(supergraph.value) = Entries(subgraphs)
        /\ supergraph.value.federation_version = SomeValue(federation_version.value)
        /\ \A order \in IterationOrders(subgraphs) :
              supergraph_config(subgraphs, federation_version.value, order)
                  = supergraph.value

\* --------------------------------------------------- interleaving claims
AllHandled == \A w \in Watchers : queues[w] = <<>>

\* The states the leader may be in after handling the messages of seq in
\* order, from one of the states sts
RECURSIVE StatesAfter(_, _)
StatesAfter(sts, seq) ==
    IF seq = <<>> THEN sts
    ELSE StatesAfter(UNION {{r.st : r \in Results(st, Head(seq))} : st \in sts},
                     Tail(seq))

\* The registries after the messages of the first watcher and then those of
\* the second, handled by a new leader
OneAfterTheOther ==
    {st.subgraphs :
        st \in StatesAfter({[subgraphs |-> EmptyMap, router |-> "Installed",
                              written |-> FALSE]},
                           sent[1] \o sent[2])}

Names(seq) == {seq[i].name : i \in DOMAIN seq}
DistinctNames ==
    \A v, w \in Watchers : v # w => Names(sent[v]) \cap Names(sent[w]) = {}

\* C28 as claimed: when all messages of the watchers are handled the registry
\* is the one registry that handling one watcher after the other gives,
\* whatever the interleaving was.
C28_Interleaving_Claimed ==
    AllHandled => OneAfterTheOther = {subgraphs}

\* C28: so it is when no two watchers send messages for the same subgraph
\* name.
C28_Interleaving ==
    (AllHandled /\ DistinctNames) => OneAfterTheOther = {subgraphs}

\* two watchers of different names have sent MaxSent messages each, the
\* first watcher's last message was handled last, an entry is registered
C28_Witness ==
    /\ AllHandled
    /\ DistinctNames
    /\ \A w \in Watchers : Len(sent[w]) = MaxSent
    /\ last.msg = sent[1][MaxSent]
    /\ Cardinality(DOMAIN subgraphs) = 2

====
